---- MODULE Spec2Model ----
(***************************************************************************)
(* Verification model of three snarkVM source files:                       *)
(*   console/program/src/data/access/parse.rs      (Access parse/display)  *)
(*   console/program/src/data_types/array_type/mod.rs   (ArrayType::new)   *)
(*   utilities/src/serialize/traits.rs  (Flags, Valid, Canonical* traits)  *)
(*                                                                         *)
(* Text is a sequence of one-character strings.  A u32 is a pair           *)
(* <<hi, lo>> of 16-bit limbs (value hi * 2^16 + lo), so that the 32-bit   *)
(* width of the index is kept exactly.                                     *)
(***************************************************************************)
EXTENDS Integers, Sequences, FiniteSets, TLC

VARIABLES
    component,    \* which part of the library this behaviour exercises
    \* ---- Access (data/access/parse.rs) ----
    string,       \* the text handed to Access::parse / Access::from_str
    typed,        \* number of characters appended to the initial text
    parsed,       \* result of Access::parse(string)
    converted,    \* result of Access::from_str(string)
    value,        \* an Access value (parsed, or constructed directly)
    text,         \* Display of value
    reparsed,     \* result of Access::parse(text)
    \* ---- ArrayType (data_types/array_type/mod.rs) ----
    max_entries,  \* N::MAX_ARRAY_ENTRIES of the network in use
    instances,    \* every ArrayType value constructed so far
    new_result,   \* result of the last ArrayType::new call
    got,          \* result of the last accessor call
    \* ---- Flags (serialize/traits.rs) ----
    flag_type,    \* the implementor of Flags: BIT_SIZE and its variants
    byte,         \* the u8 behind `value: &mut u8`
    byte_before,  \* that u8 before the last from_u8_remove_flags call
    probed,       \* result of Flags::from_u8(byte)
    removed,      \* result of the last Flags::from_u8_remove_flags call
    \* ---- Valid::batch_check (serialize/traits.rs) ----
    batch,        \* the items of the iterator, in order
    cursor,       \* position of the iterator
    check_log,    \* positions whose check() has been called, in call order
    batch_result, \* return value of batch_check
    \* ---- CanonicalSerialize / CanonicalDeserialize (serialize/traits.rs) ----
    self_value,   \* the value being serialized
    reader,       \* the bytes offered to a deserialize call
    ser_call,     \* the last serialize_* call and what it wrote
    size_call,    \* the last *_size call and what it returned
    de_call       \* the last deserialize_* call and what it returned

accessVars == <<string, typed, parsed, converted, value, text, reparsed>>

arrayVars == <<max_entries, instances, new_result, got>>

flagsVars == <<flag_type, byte, byte_before, probed, removed>>

validVars == <<batch, cursor, check_log, batch_result>>

serVars == <<self_value, reader, ser_call, size_call, de_call>>

vars == <<component, accessVars, arrayVars, flagsVars, validVars, serVars>>

otherAccessVars == <<component, arrayVars, flagsVars, validVars, serVars>>

otherArrayVars == <<component, accessVars, flagsVars, validVars, serVars>>

otherFlagsVars == <<component, accessVars, arrayVars, validVars, serVars>>

otherValidVars == <<component, accessVars, arrayVars, flagsVars, serVars>>

otherSerVars == <<component, accessVars, arrayVars, flagsVars, validVars>>

(***************************************************************************)
(* Bounds of the model.                                                    *)
(***************************************************************************)
MaxTyped == 3

MaxIdentBytes == 4

MaxCeiling == 3

MaxInstances == 2

MaxVariant == 2

MaxBatch == 4

MaxCoord == 2

MaxReader == 2

(***************************************************************************)
(* Characters.                                                             *)
(***************************************************************************)
Digits == {"0", "1", "2", "3", "4", "5", "6", "7", "8", "9"}

Letters ==
    {"a", "b", "c", "d", "e", "f", "g", "h", "i", "j", "k", "l", "m",
     "n", "o", "p", "q", "r", "s", "t", "u", "v", "w", "x", "y", "z",
     "A", "B", "C", "D", "E", "F", "G", "H", "I", "J", "K", "L", "M",
     "N", "O", "P", "Q", "R", "S", "T", "U", "V", "W", "X", "Y", "Z"}

DigitVal(c) ==
    CASE c = "0" -> 0 [] c = "1" -> 1 [] c = "2" -> 2 [] c = "3" -> 3
      [] c = "4" -> 4 [] c = "5" -> 5 [] c = "6" -> 6 [] c = "7" -> 7
      [] c = "8" -> 8 [] c = "9" -> 9

DigitChar(d) ==
    CASE d = 0 -> "0" [] d = 1 -> "1" [] d = 2 -> "2" [] d = 3 -> "3"
      [] d = 4 -> "4" [] d = 5 -> "5" [] d = 6 -> "6" [] d = 7 -> "7"
      [] d = 8 -> "8" [] d = 9 -> "9"

Drop(s, n) == SubSeq(s, n + 1, Len(s))

Take(s, n) == SubSeq(s, 1, n)

(***************************************************************************)
(* u32 arithmetic on two 16-bit limbs.                                     *)
(***************************************************************************)
Limb == 65536

U32 == (0 .. Limb - 1) \X (0 .. Limb - 1)

U32_new(hi, lo) == <<hi, lo>>

Overflow == <<-1, -1>>

\* u32::checked_mul(10)
checked_mul10(u) ==
    LET lo10 == u[2] * 10
        hi10 == u[1] * 10 + (lo10 \div Limb)
    IN  IF hi10 >= Limb THEN Overflow ELSE <<hi10, lo10 % Limb>>

\* checked_add replaced by wrapping_add
checked_add_wrapping(u, d) ==
    LET lo1 == u[2] + d
        hi1 == u[1] + (lo1 \div Limb)
    IN  <<hi1 % Limb, lo1 % Limb>>

\* u32::checked_add(d) for a digit d
checked_add(u, d) ==
    LET lo1 == u[2] + d
        hi1 == u[1] + (lo1 \div Limb)
    IN  IF hi1 >= Limb THEN Overflow ELSE <<hi1, lo1 % Limb>>

\* str::parse::<u32>() on a string of ASCII digits: the empty string is an
\* error, every digit is accumulated with checked arithmetic.
RECURSIVE parse_u32_from(_, _, _)
parse_u32_from(ds, i, acc) ==
    IF i > Len(ds) THEN acc
    ELSE LET m == checked_mul10(acc)
         IN  IF m = Overflow THEN Overflow
             ELSE LET a == checked_add(m, DigitVal(ds[i]))
                  IN  IF a = Overflow THEN Overflow
                      ELSE parse_u32_from(ds, i + 1, a)

parse_u32(ds) ==
    IF Len(ds) = 0 \/ \E i \in 1 .. Len(ds) : ds[i] \notin Digits
    THEN Overflow
    ELSE parse_u32_from(ds, 1, <<0, 0>>)

\* Quotient and remainder of a u32 by ten (long division over the limbs).
DivMod10(u) ==
    LET qhi == u[1] \div 10
        t   == (u[1] % 10) * Limb + u[2]
    IN  [quot |-> <<qhi, t \div 10>>, rem |-> t % 10]

\* Display of a u32: decimal, no sign, no padding.
RECURSIVE fmt_u32_digits(_)
fmt_u32_digits(u) ==
    IF u = <<0, 0>> THEN <<>>
    ELSE LET qr == DivMod10(u)
         IN  Append(fmt_u32_digits(qr.quot), DigitChar(qr.rem))

\* zero printed as the empty string
fmt_u32_empty_zero(u) == fmt_u32_digits(u)

fmt_u32(u) == IF u = <<0, 0>> THEN <<"0">> ELSE fmt_u32_digits(u)

(***************************************************************************)
(* Parser results (nom's IResult): Ok((remainder, output)) or Err.         *)
(***************************************************************************)
NoCall == [tag |-> "none"]

ParseErr == [tag |-> "err"]

ParseOk(rem, out) == [tag |-> "ok", remainder |-> rem, output |-> out]

\* str::replace('_', "")
RECURSIVE replace_underscores(_)
replace_underscores(s) ==
    IF s = <<>> THEN <<>>
    ELSE IF Head(s) = "_" THEN replace_underscores(Tail(s))
         ELSE <<Head(s)>> \o replace_underscores(Tail(s))

\* many0(char('_')): number of leading underscores of s from position i.
RECURSIVE many0_underscore(_, _)
many0_underscore(s, i) ==
    IF i <= Len(s) /\ s[i] = "_" THEN many0_underscore(s, i + 1) ELSE i

\* many1(terminated(one_of("0123456789"), many0(char('_')))): the position
\* after the last repetition starting at i (i itself when none matches).
RECURSIVE many_digit_groups(_, _)
many_digit_groups(s, i) ==
    IF i <= Len(s) /\ s[i] \in Digits
    THEN many_digit_groups(s, many0_underscore(s, i + 1))
    ELSE i

\* parse_index without `replace('_', "")`
parse_index_keeps_underscores(s) ==
    IF Len(s) = 0 \/ s[1] # "[" THEN ParseErr
    ELSE LET end == many_digit_groups(s, 2)
         IN  IF end = 2 THEN ParseErr
             ELSE LET primitive == SubSeq(s, 2, end - 1)
                  IN  IF end > Len(s) \/ s[end] # "]" THEN ParseErr
                      ELSE LET u == parse_u32(primitive)
                           IN  IF u = Overflow THEN ParseErr
                               ELSE ParseOk(Drop(s, end), u)

\* fn parse_index(string: &str) -> ParserResult<u32>
parse_index(s) ==
    IF Len(s) = 0 \/ s[1] # "[" THEN ParseErr            \* tag("[")
    ELSE LET end == many_digit_groups(s, 2)
         IN  IF end = 2 THEN ParseErr                     \* many1 needs one
             ELSE LET primitive == SubSeq(s, 2, end - 1)  \* recognize(..)
                  IN  IF end > Len(s) \/ s[end] # "]" THEN ParseErr
                      ELSE LET u == parse_u32(replace_underscores(primitive))
                           IN  IF u = Overflow THEN ParseErr     \* map_res
                               ELSE ParseOk(Drop(s, end), u)

\* Identifier::parse: a letter followed by letters, digits and underscores,
\* the whole run limited to the capacity of one field element.
RECURSIVE identifier_end(_, _)
identifier_end(s, i) ==
    IF i <= Len(s) /\ s[i] \in (Letters \cup Digits \cup {"_"})
    THEN identifier_end(s, i + 1)
    ELSE i

Identifier_parse(s) ==
    IF Len(s) = 0 \/ s[1] \notin Letters THEN ParseErr
    ELSE LET end == identifier_end(s, 2)
         IN  IF end - 1 > MaxIdentBytes THEN ParseErr
             ELSE ParseOk(Drop(s, end - 1), Take(s, end - 1))

Index(u) == [variant |-> "Index", index |-> u]

Member(id) == [variant |-> "Member", identifier |-> id]

\* impl Parser for Access: alt((index, member))
Access_parse(s) ==
    LET first == parse_index(s)
    IN  IF first.tag = "ok"
        THEN ParseOk(first.remainder, Index(U32_new(first.output[1], first.output[2])))
        ELSE IF Len(s) = 0 \/ s[1] # "." THEN ParseErr     \* tag(".")
             ELSE LET id == Identifier_parse(Tail(s))
                  IN  IF id.tag = "ok"
                      THEN ParseOk(id.remainder, Member(id.output))
                      ELSE ParseErr

\* from_str without the `ensure!(remainder.is_empty(), ..)`
Access_from_str_ignores_remainder(s) ==
    LET r == Access_parse(s)
    IN  IF r.tag = "ok"
        THEN [tag |-> "ok", output |-> r.output]
        ELSE [tag |-> "err", message |-> <<"Failed to parse string. ", "parse error">>]

\* impl FromStr for Access
Access_from_str(s) ==
    LET r == Access_parse(s)
    IN  IF r.tag = "ok"
        THEN IF r.remainder = <<>>
             THEN [tag |-> "ok", output |-> r.output]
             ELSE [tag |-> "err",
                   message |-> <<"Failed to parse string. Found invalid character in: ",
                                 r.remainder>>]
        ELSE [tag |-> "err", message |-> <<"Failed to parse string. ", "parse error">>]

\* impl Display for Identifier
Identifier_fmt(id) == id

\* Display with the closing bracket of an index left out
Access_fmt_unclosed(x) ==
    IF x.variant = "Index"
    THEN <<"[">> \o fmt_u32(x.index)
    ELSE <<".">> \o Identifier_fmt(x.identifier)

\* impl Display for Access
Access_fmt(x) ==
    IF x.variant = "Index"
    THEN <<"[">> \o fmt_u32(x.index) \o <<"]">>
    ELSE <<".">> \o Identifier_fmt(x.identifier)

(***************************************************************************)
(* Access: inputs and operations.                                          *)
(***************************************************************************)
Seeds ==
    {<<>>,
     <<"[">>,
     <<".">>,
     <<"[", "0">>,
     <<"[", "4", "2", "9", "4", "9", "6", "7", "2", "9">>,
     <<"[", "4", "_", "2", "9", "4", "_", "9", "6", "7", "_", "2", "9">>,
     <<"[", "9", "9", "9", "9", "9", "9", "9", "9", "9", "9", "9">>,
     <<"[", "i", "n", "d", "e", "x", "]">>,
     <<"[", "0", ".", "0", "]">>,
     <<".", "d", "a", "t">>,
     <<"[", "0", "0", "0", "0", "0", "0", "0", "0", "0", "0", "0">>,
     <<"[", "6", "5", "5", "3">>,
     <<".", "f", "o", "o", "_", "b", "a", "r", "_", "b", "a", "z", "_", "q", "u", "x", "_", "q", "u", "u", "x", "_", "q", "u", "u", "z", "_", "c", "o", "r", "g", "e", "_", "g", "r", "a", "u", "l", "t", "_", "g", "a", "r", "p", "l", "y", "_", "w", "a", "l", "d", "o", "_", "f", "r", "e", "d", "_", "p", "l", "u", "g", "h", "_", "x", "y", "z", "z", "y">>}

Alphabet == {"[", "]", ".", "_", "0", "5", "6", "9", "a"}

IdentifierSamples ==
    {<<"a">>,
     <<"x", "1">>,
     <<"a", "_", "b">>,
     <<"d", "a", "t", "a">>,
     <<"f", "o", "o">>,
     <<"Z", "9", "_">>}

LimbSamples == {0, 1, 9, 10, 4294, 6553, 6554, 65535}

\* The Access values that can be constructed directly: Index(U32::new(i))
\* for a u32 i, Member(id) for an Identifier id (one Identifier::from_str
\* accepts).
Constructible ==
    {Index(U32_new(hi, lo)) : hi \in LimbSamples, lo \in LimbSamples}
    \cup {Member(id) : id \in {i \in IdentifierSamples :
                                 Identifier_parse(i) = ParseOk(<<>>, i)}}

AccessInit ==
    /\ string \in Seeds
    /\ typed = 0
    /\ parsed = NoCall
    /\ converted = NoCall
    /\ value = NoCall
    /\ text = NoCall
    /\ reparsed = NoCall

AccessIdle ==
    /\ string = <<>>
    /\ typed = 0
    /\ parsed = NoCall
    /\ converted = NoCall
    /\ value = NoCall
    /\ text = NoCall
    /\ reparsed = NoCall

\* The caller extends the text by one character.
Type(c) ==
    /\ component = "access"
    /\ UNCHANGED otherAccessVars
    /\ typed < MaxTyped
    /\ parsed = NoCall /\ converted = NoCall /\ value = NoCall
    /\ string' = Append(string, c)
    /\ typed' = typed + 1
    /\ UNCHANGED <<parsed, converted, value, text, reparsed>>

\* Access::Index(U32::new(i)) or Access::Member(id), built without a parser.
Construct(x) ==
    /\ component = "access"
    /\ UNCHANGED otherAccessVars
    /\ string = <<>> /\ typed = 0
    /\ parsed = NoCall /\ converted = NoCall /\ value = NoCall
    /\ value' = x
    /\ UNCHANGED <<string, typed, parsed, converted, text, reparsed>>

\* Access::parse(string)
Parse ==
    /\ component = "access"
    /\ UNCHANGED otherAccessVars
    /\ parsed = NoCall /\ value = NoCall
    /\ parsed' = Access_parse(string)
    /\ value' = IF parsed'.tag = "ok" THEN parsed'.output ELSE value
    /\ UNCHANGED <<string, typed, converted, text, reparsed>>

\* Access::from_str(string)
FromStr ==
    /\ component = "access"
    /\ UNCHANGED otherAccessVars
    /\ converted = NoCall
    /\ value = NoCall \/ parsed # NoCall
    /\ converted' = Access_from_str(string)
    /\ UNCHANGED <<string, typed, parsed, value, text, reparsed>>

\* value.to_string()
Display ==
    /\ component = "access"
    /\ UNCHANGED otherAccessVars
    /\ value # NoCall /\ text = NoCall
    /\ text' = Access_fmt(value)
    /\ UNCHANGED <<string, typed, parsed, converted, value, reparsed>>

\* Access::parse(&value.to_string())
Reparse ==
    /\ component = "access"
    /\ UNCHANGED otherAccessVars
    /\ text # NoCall /\ reparsed = NoCall
    /\ reparsed' = Access_parse(text)
    /\ UNCHANGED <<string, typed, parsed, converted, value, text>>

AccessNext ==
    \/ \E c \in Alphabet : Type(c)
    \/ \E x \in Constructible : Construct(x)
    \/ Parse
    \/ FromStr
    \/ Display
    \/ Reparse

(***************************************************************************)
(* ArrayType.                                                              *)
(***************************************************************************)
ElementTypes == {"field", "scalar", "foo"}

Lengths == 0 .. MaxCeiling + 1

Err(msg) == [tag |-> "err", message |-> msg]

\* new with `<` in place of `<=`
ArrayType_new_strict(max, element_type, length) ==
    IF ~(length # 0)
    THEN Err(<<"The array must have at least one element">>)
    ELSE IF ~(length < max)
         THEN Err(<<"The array must have at most {} elements", max>>)
         ELSE [tag |-> "ok",
               output |-> [element_type |-> element_type, length |-> length]]

\* pub fn new(element_type, length) -> Result<Self>, for the network whose
\* MAX_ARRAY_ENTRIES is max.
ArrayType_new(max, element_type, length) ==
    IF ~(length # 0)
    THEN Err(<<"The array must have at least one element">>)
    ELSE IF ~(length <= max)
         THEN Err(<<"The array must have at most {} elements", max>>)
         ELSE [tag |-> "ok",
               output |-> [element_type |-> element_type, length |-> length]]

\* pub fn element_type(&self) -> &ElementType<N>
ArrayType_element_type(self) == self.element_type

\* pub fn length(&self) -> &U32<N>
ArrayType_length(self) == self.length

ArrayInit ==
    /\ max_entries \in 1 .. MaxCeiling
    /\ instances = <<>>
    /\ new_result = NoCall
    /\ got = NoCall

ArrayIdle ==
    /\ max_entries = 1
    /\ instances = <<>>
    /\ new_result = NoCall
    /\ got = NoCall

\* A call of ArrayType::new; a value it returns is kept by the caller.
New(e, l) ==
    /\ component = "array"
    /\ UNCHANGED otherArrayVars
    /\ Len(instances) < MaxInstances
    /\ LET r == ArrayType_new(max_entries, e, l)
       IN  /\ new_result' = [element_type |-> e, length |-> l,
                             at |-> Len(instances) + 1, result |-> r]
           /\ instances' = IF r.tag = "ok" THEN Append(instances, r.output)
                           ELSE instances
    /\ UNCHANGED <<max_entries, got>>

\* A call of instances[i].element_type()
GetElementType(i) ==
    /\ component = "array"
    /\ UNCHANGED otherArrayVars
    /\ got' = [of |-> i, accessor |-> "element_type",
               output |-> ArrayType_element_type(instances[i])]
    /\ UNCHANGED <<max_entries, instances, new_result>>

\* A call of instances[i].length()
GetLength(i) ==
    /\ component = "array"
    /\ UNCHANGED otherArrayVars
    /\ got' = [of |-> i, accessor |-> "length",
               output |-> ArrayType_length(instances[i])]
    /\ UNCHANGED <<max_entries, instances, new_result>>

ArrayNext ==
    \/ \E e \in ElementTypes, l \in Lengths : New(e, l)
    \/ \E i \in DOMAIN instances : GetElementType(i)
    \/ \E i \in DOMAIN instances : GetLength(i)

(***************************************************************************)
(* Flags.                                                                  *)
(***************************************************************************)
Pow2(n) ==
    CASE n = 0 -> 1 [] n = 1 -> 2 [] n = 2 -> 4 [] n = 3 -> 8 [] n = 4 -> 16
      [] n = 5 -> 32 [] n = 6 -> 64 [] n = 7 -> 128 [] n = 8 -> 256

\* a & b on u8
RECURSIVE BitAndN(_, _, _)
BitAndN(a, b, n) ==
    IF n = 0 THEN 0
    ELSE (a % 2) * (b % 2) + 2 * BitAndN(a \div 2, b \div 2, n - 1)

BitAnd(a, b) == BitAndN(a, b, 8)

\* !a on u8
BitNot(a) == 255 - a

None == [some |-> FALSE]

Some(f) == [some |-> TRUE, flag |-> f]

\* An implementor of Flags: BIT_SIZE (at most 8) and the variants in use,
\* each variant being a number that fits in BIT_SIZE bits.
VariantPool(bits) ==
    {k \in (0 .. MaxVariant) \cup {Pow2(bits) - 1} : k < Pow2(bits)}

FlagTypes ==
    UNION {{[BIT_SIZE |-> bits, variants |-> vs] :
               vs \in (SUBSET VariantPool(bits)) \ {{}}} : bits \in 0 .. 8}

\* fn u8_bitmask(&self) -> u8: the variant in the BIT_SIZE top bits.
u8_bitmask(ft, f) == (f * Pow2(8 - ft.BIT_SIZE)) % 256

\* fn from_u8(value: u8) -> Option<Self>: looks at the BIT_SIZE top bits only.
from_u8(ft, v) ==
    LET top == v \div Pow2(8 - ft.BIT_SIZE)
    IN  IF top \in ft.variants THEN Some(top) ELSE None

\* from_u8_remove_flags with the `!` of the mask left out
from_u8_remove_flags_keeps_mask(ft, v) ==
    LET flags == from_u8(ft, v)
    IN  [flags |-> flags,
         value |-> IF flags.some
                   THEN BitAnd(v, u8_bitmask(ft, flags.flag))
                   ELSE v]

\* fn from_u8_remove_flags(value: &mut u8) -> Option<Self>
from_u8_remove_flags(ft, v) ==
    LET flags == from_u8(ft, v)
    IN  [flags |-> flags,
         value |-> IF flags.some
                   THEN BitAnd(v, BitNot(u8_bitmask(ft, flags.flag)))
                   ELSE v]

FlagsInit ==
    /\ flag_type \in FlagTypes
    /\ byte \in 0 .. 255
    /\ byte_before = byte
    /\ probed = NoCall
    /\ removed = NoCall

FlagsIdle ==
    /\ flag_type = [BIT_SIZE |-> 0, variants |-> {0}]
    /\ byte = 0
    /\ byte_before = 0
    /\ probed = NoCall
    /\ removed = NoCall

\* A call of F::from_u8(byte)
FromU8 ==
    /\ component = "flags"
    /\ UNCHANGED otherFlagsVars
    /\ probed' = [of |-> byte, result |-> from_u8(flag_type, byte)]
    /\ UNCHANGED <<flag_type, byte, byte_before, removed>>

\* A call of F::from_u8_remove_flags(&mut byte)
RemoveFlags ==
    /\ component = "flags"
    /\ UNCHANGED otherFlagsVars
    /\ LET r == from_u8_remove_flags(flag_type, byte)
       IN  /\ removed' = [result |-> r.flags]
           /\ byte' = r.value
           /\ byte_before' = byte
    /\ UNCHANGED <<flag_type, probed>>

FlagsNext ==
    \/ FromU8
    \/ RemoveFlags

(***************************************************************************)
(* Valid::batch_check.                                                     *)
(***************************************************************************)
Outcomes == {"ok", "E1", "E2"}

\* fn check(&self) -> Result<(), SerializationError> of an item whose
\* integrity state is o.
item_check(o) == IF o = "ok" THEN [tag |-> "ok"] ELSE Err(o)

Batches == UNION {[1 .. n -> Outcomes] : n \in 0 .. MaxBatch}

ValidInit ==
    /\ batch \in Batches
    /\ cursor = 1
    /\ check_log = <<>>
    /\ batch_result = NoCall

ValidIdle ==
    /\ batch = <<>>
    /\ cursor = 1
    /\ check_log = <<>>
    /\ batch_result = NoCall

\* the loop body with the `?` left out
BatchCheckItem_ignores_error ==
    /\ component = "valid"
    /\ UNCHANGED otherValidVars
    /\ batch_result = NoCall
    /\ cursor <= Len(batch)
    /\ check_log' = Append(check_log, cursor)
    /\ batch_result' = batch_result
    /\ cursor' = cursor + 1
    /\ UNCHANGED batch

\* One iteration of `for item in batch { item.check()?; }`
BatchCheckItem ==
    /\ component = "valid"
    /\ UNCHANGED otherValidVars
    /\ batch_result = NoCall
    /\ cursor <= Len(batch)
    /\ check_log' = Append(check_log, cursor)
    /\ LET r == item_check(batch[cursor])
       IN  IF r.tag = "err"
           THEN /\ batch_result' = r
                /\ cursor' = cursor
           ELSE /\ batch_result' = batch_result
                /\ cursor' = cursor + 1
    /\ UNCHANGED batch

\* The iterator is exhausted: Ok(())
BatchCheckReturn ==
    /\ component = "valid"
    /\ UNCHANGED otherValidVars
    /\ batch_result = NoCall
    /\ cursor > Len(batch)
    /\ batch_result' = [tag |-> "ok"]
    /\ UNCHANGED <<batch, cursor, check_log>>

ValidNext ==
    \/ BatchCheckItem
    \/ BatchCheckReturn

(***************************************************************************)
(* CanonicalSerialize / CanonicalDeserialize.                              *)
(*                                                                         *)
(* The required methods are those of one implementor: a curve point        *)
(* (x, y) whose y is derivable from x.  The compressed form writes x, the  *)
(* uncompressed form writes x and y; check() accepts the points on the     *)
(* curve.                                                                  *)
(***************************************************************************)
Coords == 0 .. MaxCoord

ByteVals == 0 .. MaxCoord + 1

Curve(x) == (x * x + 1) % (MaxCoord + 1)

Points == [x : Coords, y : Coords]

Readers == UNION {[1 .. n -> ByteVals] : n \in 0 .. MaxReader}

\* Valid::check of the implementor
point_check(v) ==
    IF v.x \in Coords /\ v.y = Curve(v.x) THEN [tag |-> "ok"]
    ELSE Err("InvalidData")

\* CanonicalSerialize::serialize_with_mode of the implementor
serialize_with_mode(self, writer, compress) ==
    [compress |-> compress,
     writer   |-> IF compress = "Yes" THEN writer \o <<self.x>>
                  ELSE writer \o <<self.x, self.y>>,
     result   |-> [tag |-> "ok"]]

\* CanonicalSerialize::serialized_size of the implementor
serialized_size(self, compress) ==
    [compress |-> compress,
     result   |-> IF compress = "Yes" THEN 1 ELSE 2]

\* CanonicalDeserialize::deserialize_with_mode of the implementor
deserialize_with_mode(r, compress, validate) ==
    LET need    == IF compress = "Yes" THEN 1 ELSE 2
        decoded == IF compress = "Yes" THEN [x |-> r[1], y |-> Curve(r[1])]
                   ELSE [x |-> r[1], y |-> r[2]]
    IN  IF Len(r) < need
        THEN [compress |-> compress, validate |-> validate,
              check_called |-> FALSE, result |-> Err("IoError")]
        ELSE IF validate = "Yes"
             THEN [compress |-> compress, validate |-> validate,
                   check_called |-> TRUE,
                   result |-> IF point_check(decoded).tag = "ok"
                              THEN [tag |-> "ok", output |-> decoded]
                              ELSE point_check(decoded)]
             ELSE [compress |-> compress, validate |-> validate,
                   check_called |-> FALSE,
                   result |-> [tag |-> "ok", output |-> decoded]]

\* The provided methods of CanonicalSerialize.
serialize_compressed(self, writer) == serialize_with_mode(self, writer, "Yes")

\* compressed_size asking for the uncompressed size
compressed_size_uncompressed(self) == serialized_size(self, "No")

compressed_size(self) == serialized_size(self, "Yes")

serialize_uncompressed(self, writer) == serialize_with_mode(self, writer, "No")

uncompressed_size(self) == serialized_size(self, "No")

\* The provided methods of CanonicalDeserialize.
deserialize_compressed(r) == deserialize_with_mode(r, "Yes", "Yes")

deserialize_compressed_unchecked(r) == deserialize_with_mode(r, "Yes", "No")

deserialize_uncompressed(r) == deserialize_with_mode(r, "No", "Yes")

\* deserialize_uncompressed_unchecked asking for validation
deserialize_uncompressed_unchecked_validates(r) == deserialize_with_mode(r, "No", "Yes")

deserialize_uncompressed_unchecked(r) == deserialize_with_mode(r, "No", "No")

SerInit ==
    /\ self_value \in Points
    /\ reader \in Readers
    /\ ser_call = NoCall
    /\ size_call = NoCall
    /\ de_call = NoCall

SerIdle ==
    /\ self_value = [x |-> 0, y |-> 0]
    /\ reader = <<>>
    /\ ser_call = NoCall
    /\ size_call = NoCall
    /\ de_call = NoCall

\* Each call below is made with a fresh, empty writer.
SerializeWithMode(c) ==
    /\ component = "serialize"
    /\ UNCHANGED otherSerVars
    /\ ser_call' = [entry |-> "serialize_with_mode",
                    ret |-> serialize_with_mode(self_value, <<>>, c)]
    /\ UNCHANGED <<self_value, reader, size_call, de_call>>

SerializeCompressed ==
    /\ component = "serialize"
    /\ UNCHANGED otherSerVars
    /\ ser_call' = [entry |-> "serialize_compressed",
                    ret |-> serialize_compressed(self_value, <<>>)]
    /\ UNCHANGED <<self_value, reader, size_call, de_call>>

SerializeUncompressed ==
    /\ component = "serialize"
    /\ UNCHANGED otherSerVars
    /\ ser_call' = [entry |-> "serialize_uncompressed",
                    ret |-> serialize_uncompressed(self_value, <<>>)]
    /\ UNCHANGED <<self_value, reader, size_call, de_call>>

SerializedSize(c) ==
    /\ component = "serialize"
    /\ UNCHANGED otherSerVars
    /\ size_call' = [entry |-> "serialized_size",
                     ret |-> serialized_size(self_value, c)]
    /\ UNCHANGED <<self_value, reader, ser_call, de_call>>

CompressedSize ==
    /\ component = "serialize"
    /\ UNCHANGED otherSerVars
    /\ size_call' = [entry |-> "compressed_size",
                     ret |-> compressed_size(self_value)]
    /\ UNCHANGED <<self_value, reader, ser_call, de_call>>

UncompressedSize ==
    /\ component = "serialize"
    /\ UNCHANGED otherSerVars
    /\ size_call' = [entry |-> "uncompressed_size",
                     ret |-> uncompressed_size(self_value)]
    /\ UNCHANGED <<self_value, reader, ser_call, de_call>>

DeserializeWithMode(c, v) ==
    /\ component = "serialize"
    /\ UNCHANGED otherSerVars
    /\ de_call' = [entry |-> "deserialize_with_mode",
                   ret |-> deserialize_with_mode(reader, c, v)]
    /\ UNCHANGED <<self_value, reader, ser_call, size_call>>

DeserializeCompressed ==
    /\ component = "serialize"
    /\ UNCHANGED otherSerVars
    /\ de_call' = [entry |-> "deserialize_compressed",
                   ret |-> deserialize_compressed(reader)]
    /\ UNCHANGED <<self_value, reader, ser_call, size_call>>

DeserializeCompressedUnchecked ==
    /\ component = "serialize"
    /\ UNCHANGED otherSerVars
    /\ de_call' = [entry |-> "deserialize_compressed_unchecked",
                   ret |-> deserialize_compressed_unchecked(reader)]
    /\ UNCHANGED <<self_value, reader, ser_call, size_call>>

DeserializeUncompressed ==
    /\ component = "serialize"
    /\ UNCHANGED otherSerVars
    /\ de_call' = [entry |-> "deserialize_uncompressed",
                   ret |-> deserialize_uncompressed(reader)]
    /\ UNCHANGED <<self_value, reader, ser_call, size_call>>

DeserializeUncompressedUnchecked ==
    /\ component = "serialize"
    /\ UNCHANGED otherSerVars
    /\ de_call' = [entry |-> "deserialize_uncompressed_unchecked",
                   ret |-> deserialize_uncompressed_unchecked(reader)]
    /\ UNCHANGED <<self_value, reader, ser_call, size_call>>

Modes == {"Yes", "No"}

SerNext ==
    \/ \E c \in Modes : SerializeWithMode(c)
    \/ SerializeCompressed
    \/ SerializeUncompressed
    \/ \E c \in Modes : SerializedSize(c)
    \/ CompressedSize
    \/ UncompressedSize
    \/ \E c \in Modes, v \in Modes : DeserializeWithMode(c, v)
    \/ DeserializeCompressed
    \/ DeserializeCompressedUnchecked
    \/ DeserializeUncompressed
    \/ DeserializeUncompressedUnchecked

(***************************************************************************)
(* Specifications: one per part of the library.                            *)
(***************************************************************************)
AccessSpecInit ==
    component = "access" /\ AccessInit /\ ArrayIdle /\ FlagsIdle /\ ValidIdle /\ SerIdle

AccessSpec == AccessSpecInit /\ [][AccessNext]_vars

ArraySpecInit ==
    component = "array" /\ AccessIdle /\ ArrayInit /\ FlagsIdle /\ ValidIdle /\ SerIdle

ArraySpec == ArraySpecInit /\ [][ArrayNext]_vars

FlagsSpecInit ==
    component = "flags" /\ AccessIdle /\ ArrayIdle /\ FlagsInit /\ ValidIdle /\ SerIdle

FlagsSpec == FlagsSpecInit /\ [][FlagsNext]_vars

ValidSpecInit ==
    component = "valid" /\ AccessIdle /\ ArrayIdle /\ FlagsIdle /\ ValidInit /\ SerIdle

ValidSpec == ValidSpecInit /\ [][ValidNext]_vars

SerSpecInit ==
    component = "serialize" /\ AccessIdle /\ ArrayIdle /\ FlagsIdle /\ ValidIdle /\ SerInit

SerSpec == SerSpecInit /\ [][SerNext]_vars

(***************************************************************************)
(* Properties of Access (AccessSpec).                                      *)
(***************************************************************************)
Str_LBracket == <<"[">>

Str_RBracket == <<"]">>

Str_U32Max == <<"4", "2", "9", "4", "9", "6", "7", "2", "9", "5">>

HasUnderscore(s) == \E i \in DOMAIN s : s[i] = "_"

\* One or more digits, each optionally followed by underscores.
IsDigitSeq(d) ==
    /\ Len(d) >= 1
    /\ d[1] \in Digits
    /\ \A i \in DOMAIN d : d[i] \in Digits \cup {"_"}

\* The digits of d without underscores and without superfluous leading zeros.
RECURSIVE StripZeros(_)
StripZeros(d) ==
    IF Len(d) > 1 /\ Head(d) = "0" THEN StripZeros(Tail(d)) ELSE d

Stripped(d) == SelectSeq(d, LAMBDA c : c # "_")

Canonical(d) == StripZeros(Stripped(d))

\* a <= b for two digit strings of the same length
RECURSIVE LexLeq(_, _)
LexLeq(a, b) ==
    IF a = <<>> THEN TRUE
    ELSE IF DigitVal(Head(a)) < DigitVal(Head(b)) THEN TRUE
         ELSE IF DigitVal(Head(a)) > DigitVal(Head(b)) THEN FALSE
              ELSE LexLeq(Tail(a), Tail(b))

\* The decimal value of the digit sequence d is at most 2^32 - 1.
FitsU32(d) ==
    LET c == Canonical(d)
    IN  \/ Len(c) < Len(Str_U32Max)
        \/ Len(c) = Len(Str_U32Max) /\ LexLeq(c, Str_U32Max)

\* s is "[" d "]" for a digit sequence d
IsBracketed(s) ==
    /\ Len(s) >= 3
    /\ s[1] = "[" /\ s[Len(s)] = "]"
    /\ IsDigitSeq(SubSeq(s, 2, Len(s) - 1))

Inner(s) == SubSeq(s, 2, Len(s) - 1)

\* C1: Access::parse on "[" d "]", d a digit sequence with underscores
\* allowed after any digit and a value u <= 2^32 - 1, returns Index(u) with
\* an empty remainder, the same result as for d without its underscores.
C1_IndexParses ==
    (parsed # NoCall /\ IsBracketed(string) /\ FitsU32(Inner(string))) =>
        /\ parsed.tag = "ok"
        /\ parsed.remainder = <<>>
        /\ parsed.output.variant = "Index"
        /\ parsed.output.index \in U32
        /\ fmt_u32(parsed.output.index) = Canonical(Inner(string))
        /\ parsed = Access_parse(Str_LBracket \o Stripped(Inner(string)) \o Str_RBracket)
        /\ (Stripped(Inner(string)) = Str_U32Max =>
                parsed.output = Index(<<65535, 65535>>))

C1_Witness ==
    /\ string = <<"[", "4", "_", "2", "9", "4", "_", "9", "6", "7", "_", "2", "9", "5", "_", "]">>
    /\ parsed.tag = "ok"
    /\ parsed.output = Index(<<65535, 65535>>)

IdentChars == Letters \cup Digits \cup {"_"}

\* Some prefix of s is an index literal whose value fits in 32 bits.
MatchesIndex(s) ==
    \E n \in 3 .. Len(s) :
        IsBracketed(Take(s, n)) /\ FitsU32(Inner(Take(s, n)))

\* s starts with "." and an identifier; the identifier is the longest run of
\* identifier characters and fits the capacity.
MatchesMember(s) ==
    \E n \in 2 .. Len(s) :
        /\ s[1] = "." /\ s[2] \in Letters
        /\ \A i \in 2 .. n : s[i] \in IdentChars
        /\ n = Len(s) \/ s[n + 1] \notin IdentChars
        /\ n - 1 <= MaxIdentBytes

\* C2: Access::parse returns an error for every input that matches neither
\* production: "", ".", "[]", brackets with non-digit content, "." followed
\* by a digit, a bracketed digit sequence above 2^32 - 1; "[4294967295]"
\* succeeds with Index(4294967295).
C2_RejectsNonMatching ==
    parsed # NoCall =>
        /\ (~MatchesIndex(string) /\ ~MatchesMember(string)) => parsed.tag = "err"
        /\ string \in {<<>>, <<".">>, <<"[", "]">>} => parsed.tag = "err"
        /\ string \in {<<"[", "i", "n", "d", "e", "x", "]">>,
                       <<"[", "0", ".", "0", "]">>} => parsed.tag = "err"
        /\ (Len(string) >= 2 /\ string[1] = "[" /\ string[2] \notin Digits)
              => parsed.tag = "err"
        /\ (Len(string) >= 2 /\ string[1] = "." /\ string[2] \in Digits)
              => parsed.tag = "err"
        /\ (IsBracketed(string) /\ ~FitsU32(Inner(string))) => parsed.tag = "err"
        /\ string = Str_LBracket \o Str_U32Max \o Str_RBracket
              => parsed = ParseOk(<<>>, Index(<<65535, 65535>>))

C2_Witness ==
    /\ string = <<"[", "4", "2", "9", "4", "9", "6", "7", "2", "9", "6", "]">>
    /\ parsed.tag = "err"

\* C3: for every Access value x, parsing Display(x) succeeds with an empty
\* remainder and yields x.
C3_RoundTrip ==
    reparsed # NoCall =>
        /\ reparsed.tag = "ok"
        /\ reparsed.remainder = <<>>
        /\ reparsed.output = value

C3_Witness ==
    /\ parsed = NoCall
    /\ value = Index(<<65535, 65535>>)
    /\ reparsed = ParseOk(<<>>, value)

\* The index digits of s carry no underscore (the underscores of a member
\* name are part of the identifier, not a grouping).
NoUnderscoreGrouping(s) == (Len(s) >= 1 /\ s[1] = "[") => ~HasUnderscore(s)

\* The index digits of s have no superfluous leading zero.
NoLeadingZeros(s) ==
    (Len(s) >= 3 /\ s[1] = "[" /\ s[2] = "0") => s[3] \notin Digits \cup {"_"}

AcceptedInFull == parsed.tag = "ok" /\ parsed.remainder = <<>> /\ text # NoCall

\* C4 as stated: every fully accepted input without underscore grouping is
\* displayed back unchanged.
C4_Original ==
    (AcceptedInFull /\ NoUnderscoreGrouping(string)) => text = string

\* C4 amended: every fully accepted input whose index digits have neither
\* underscores nor superfluous leading zeros is displayed back unchanged;
\* only underscore-grouped or zero-padded inputs are canonicalized.
C4_Amended ==
    (AcceptedInFull /\ NoUnderscoreGrouping(string) /\ NoLeadingZeros(string))
        => text = string

C4_Witness ==
    /\ string = <<"[", "4", "2", "9", "4", "9", "6", "7", "2", "9", "5", "]">>
    /\ AcceptedInFull
    /\ text = string

IsSuffix(r, s) == Len(r) <= Len(s) /\ r = Drop(s, Len(s) - Len(r))

\* C5: parse returns the unconsumed remainder; from_str returns a value only
\* when parse succeeds with an empty remainder, fails naming the remainder
\* when it is not empty, fails when parse fails, and a value it returns is
\* the value parse returned.
C5_FromStr ==
    (parsed # NoCall /\ converted # NoCall) =>
        /\ parsed.tag = "ok" => IsSuffix(parsed.remainder, string)
        /\ (parsed.tag = "ok" /\ parsed.remainder # <<>>) =>
              /\ converted.tag = "err"
              /\ converted.message[2] = parsed.remainder
        /\ parsed.tag = "err" => converted.tag = "err"
        /\ converted.tag = "ok" =>
              /\ parsed.tag = "ok" /\ parsed.remainder = <<>>
              /\ converted.output = parsed.output
        /\ (parsed.tag = "ok" /\ parsed.remainder = <<>>) => converted.tag = "ok"

C5_Witness ==
    /\ parsed.tag = "ok"
    /\ parsed.remainder = <<"]", "a">>
    /\ converted.tag = "err"
    /\ converted.message[2] = <<"]", "a">>

(***************************************************************************)
(* Properties of ArrayType (ArraySpec).                                    *)
(***************************************************************************)
ArrayNewContract ==
    new_result # NoCall =>
        /\ new_result.length = 0 => new_result.result.tag = "err"
        /\ new_result.length > max_entries => new_result.result.tag = "err"
        /\ (1 <= new_result.length /\ new_result.length <= max_entries) =>
              /\ new_result.result.tag = "ok"
              /\ new_result.at \in DOMAIN instances
              /\ ArrayType_element_type(instances[new_result.at]) = new_result.element_type
              /\ ArrayType_length(instances[new_result.at]) = new_result.length
              /\ (got # NoCall /\ got.of = new_result.at) =>
                    got.output = IF got.accessor = "length"
                                 THEN new_result.length
                                 ELSE new_result.element_type

ArrayLengthInvariant ==
    \A i \in DOMAIN instances :
        1 <= instances[i].length /\ instances[i].length <= max_entries

ArrayImmutable ==
    \A i \in DOMAIN instances :
        i \in DOMAIN instances' /\ instances'[i] = instances[i]

\* C6: ArrayType::new fails for length 0 and for length > MAX_ARRAY_ENTRIES,
\* otherwise succeeds with an instance whose element_type() and length() are
\* the arguments; every instance has 1 <= length <= MAX_ARRAY_ENTRIES and no
\* operation changes an instance.
C6_ArrayNew ==
    /\ [](ArrayNewContract /\ ArrayLengthInvariant)
    /\ [][ArrayImmutable]_vars

C6_Witness ==
    /\ new_result # NoCall
    /\ new_result.result.tag = "ok"
    /\ new_result.length = max_entries
    /\ max_entries = MaxCeiling
    /\ got # NoCall /\ got.of = new_result.at /\ got.accessor = "length"

(***************************************************************************)
(* Properties of Flags (FlagsSpec).                                        *)
(***************************************************************************)
Bit(x, i) == (x \div Pow2(i)) % 2

\* C7: from_u8_remove_flags returns what from_u8 returns on the original
\* byte; on a match it clears exactly the bits of the matched bitmask, on no
\* match it leaves the byte alone; the low 8 - BIT_SIZE bits never change.
C7_RemoveFlags ==
    removed # NoCall =>
        /\ removed.result = from_u8(flag_type, byte_before)
        /\ (probed # NoCall /\ probed.of = byte_before) => removed.result = probed.result
        /\ removed.result.some =>
              LET mask == u8_bitmask(flag_type, removed.result.flag)
              IN  \A i \in 0 .. 7 :
                     Bit(byte, i) = IF Bit(mask, i) = 1 THEN 0 ELSE Bit(byte_before, i)
        /\ ~removed.result.some => byte = byte_before
        /\ byte % Pow2(8 - flag_type.BIT_SIZE) = byte_before % Pow2(8 - flag_type.BIT_SIZE)

C7_Witness ==
    /\ removed # NoCall
    /\ removed.result.some
    /\ flag_type.BIT_SIZE = 2
    /\ byte_before = 255
    /\ byte = 63
    /\ probed # NoCall /\ probed.of = byte_before

(***************************************************************************)
(* Properties of Valid::batch_check (ValidSpec).                           *)
(***************************************************************************)
AllOk(n) == \A i \in 1 .. n : batch[i] = "ok"

BatchOrder ==
    /\ \A i \in DOMAIN check_log : check_log[i] = i
    /\ Len(check_log) <= Len(batch)
    /\ Len(check_log) >= 1 => AllOk(Len(check_log) - 1)

BatchOutcome ==
    /\ batch_result.tag = "err" =>
          /\ Len(check_log) >= 1
          /\ batch[Len(check_log)] # "ok"
          /\ batch_result = item_check(batch[Len(check_log)])
    /\ batch_result.tag = "ok" =>
          /\ AllOk(Len(batch))
          /\ Len(check_log) = Len(batch)
    /\ (batch_result # NoCall /\ AllOk(Len(batch))) => batch_result.tag = "ok"

BatchStops == batch_result # NoCall => (check_log' = check_log /\ batch_result' = batch_result)

\* C8: batch_check calls check() on the items in sequence order, stops at
\* the first failing item and returns its error without checking any later
\* item, and returns success exactly when every check() succeeds.
C8_BatchCheck ==
    /\ [](BatchOrder /\ BatchOutcome)
    /\ [][BatchStops]_vars

C8_Witness ==
    /\ Len(batch) = 4
    /\ batch[1] = "ok" /\ batch[2] = "E2" /\ batch[3] = "E1"
    /\ batch_result = Err("E2")
    /\ check_log = <<1, 2>>

(***************************************************************************)
(* Properties of CanonicalSerialize / CanonicalDeserialize (SerSpec).      *)
(***************************************************************************)
DeModes ==
    [deserialize_compressed             |-> <<"Yes", "Yes">>,
     deserialize_compressed_unchecked   |-> <<"Yes", "No">>,
     deserialize_uncompressed           |-> <<"No", "Yes">>,
     deserialize_uncompressed_unchecked |-> <<"No", "No">>]

SerModes ==
    [serialize_compressed   |-> "Yes",
     serialize_uncompressed |-> "No"]

SizeModes ==
    [compressed_size   |-> "Yes",
     uncompressed_size |-> "No"]

\* C9: each convenience entry point is the with-mode operation at its named
\* mode and returns its result unchanged; validation is skipped only by the
\* two *_unchecked entry points.
C9_Convenience ==
    /\ (de_call # NoCall /\ de_call.entry \in DOMAIN DeModes) =>
          /\ de_call.ret.compress = DeModes[de_call.entry][1]
          /\ de_call.ret.validate = DeModes[de_call.entry][2]
          /\ de_call.ret = deserialize_with_mode(reader, DeModes[de_call.entry][1],
                                                 DeModes[de_call.entry][2])
          /\ de_call.ret.validate = "No" <=>
                de_call.entry \in {"deserialize_compressed_unchecked",
                                   "deserialize_uncompressed_unchecked"}
          /\ (de_call.ret.result.tag = "ok" /\ de_call.ret.validate = "Yes") =>
                /\ de_call.ret.check_called
                /\ point_check(de_call.ret.result.output).tag = "ok"
    /\ (ser_call # NoCall /\ ser_call.entry \in DOMAIN SerModes) =>
          /\ ser_call.ret.compress = SerModes[ser_call.entry]
          /\ ser_call.ret = serialize_with_mode(self_value, <<>>, SerModes[ser_call.entry])
    /\ (size_call # NoCall /\ size_call.entry \in DOMAIN SizeModes) =>
          /\ size_call.ret.compress = SizeModes[size_call.entry]
          /\ size_call.ret = serialized_size(self_value, SizeModes[size_call.entry])

C9_Witness ==
    /\ de_call # NoCall
    /\ de_call.entry = "deserialize_uncompressed_unchecked"
    /\ de_call.ret.result.tag = "ok"
    /\ ~de_call.ret.check_called
    /\ point_check(de_call.ret.result.output).tag = "err"

====
